---- MODULE Spec2Model ----
(***************************************************************************)
(* A model of the go-sqlmock mock connection: the ordered list of          *)
(* expectations of one mockConn, the declaration API of MockDB, the        *)
(* builder methods of the expectations, the driver operations of mockConn, *)
(* the transaction and statement proxies, and Close; the argument matcher  *)
(* applied to arbitrary argument lists; and the registry of the driver     *)
(* under concurrent sessions.                                              *)
(***************************************************************************)
EXTENDS Integers, Sequences, FiniteSets, TLC

(* ------------------------------------------------------------------------ *)
(* Bounds of the model                                                      *)
(* ------------------------------------------------------------------------ *)

\* the longest list of expectations a connection holds in the model
MaxLen == 2

\* the longest argument list handed to the argument matcher on its own
MaxArgs == 2

\* the number of goroutines that use the driver concurrently
NumProcs == 2

(* ------------------------------------------------------------------------ *)
(* Values                                                                   *)
(* ------------------------------------------------------------------------ *)

Kinds == {"Begin", "Commit", "Rollback", "Prepare", "Exec", "Query"}

\* error values; kind "nil" is Go's nil error
NoErr == [kind |-> "nil", detail |-> "nil"]

\* an error made by the test author and handed to WillReturnError
PlannedErr(id) == [kind |-> "Planned", detail |-> id]

ErrVals == {PlannedErr("errA")}

ErrUnexpected(op) == [kind |-> "Unexpected", detail |-> op]

ErrSequence(nextKind) == [kind |-> "SequenceMismatch", detail |-> nextKind]

ErrMisconfigured == [kind |-> "Misconfigured", detail |-> "payload not set"]

ErrQueryMismatch == [kind |-> "QueryMismatch", detail |-> "regex"]

ErrArgMismatch == [kind |-> "ArgMismatch", detail |-> "args"]

ErrArgFault == [kind |-> "ArgMismatch", detail |-> "reflect.ValueError"]

ErrUnfulfilled(kind) == [kind |-> "Unfulfilled", detail |-> kind]

\* what a call returns next to its error: nothing, a handle or a payload
NilRes == [type |-> "nil", val |-> <<>>]

TxHandle == [type |-> "tx", val |-> <<>>]

StmtHandle(q) == [type |-> "stmt", val |-> q]

ResultVals == {[type |-> "result", val |-> <<"r1">>]}

RowsVals == {[type |-> "rows", val |-> <<"rows1">>]}

\* a driver.Value: its reflect kind ("int", "uint", "float", "string",
\* "struct" for a time.Time, "bool") and its content
Val(c, x) == [cls |-> c, v |-> x]

\* a []driver.Value; a nil slice is not the same as an empty one
NilArgs == [isNil |-> TRUE, vals |-> <<>>]

Args(s) == [isNil |-> FALSE, vals |-> s]

\* the slice a variadic parameter args ...driver.Value receives: nil when the
\* call lists no value, the listed values otherwise, and the caller's own
\* slice, empty or not, when the call spreads a slice (s...)
variadic(form, l) ==
    IF form = "listed" /\ l = <<>> THEN NilArgs ELSE Args(l)

\* the patterns handed to ExpectExec and ExpectQuery
Patterns == {<<"a", " ", "b">>}

\* the query texts handed to Prepare, Exec and Query
Queries == {<<" ", "a", " ", " ", "b">>, <<"b">>}

\* the argument lists handed to WithArgs (none at all gives a nil slice)
DeclArgs == {NilArgs, Args(<<Val("int", 5)>>)}

\* the argument lists handed to Exec and Query
CallArgs == {<<Val("int", 5)>>, <<Val("int", 6)>>, <<Val("float", 5)>>}

(* ------------------------------------------------------------------------ *)
(* State                                                                    *)
(* ------------------------------------------------------------------------ *)

VARIABLES
    expectations,   \* mockConn.expectations
    active,         \* mockConn.active: index of the expectation, 0 for nil
    hasTx,          \* the caller holds a transaction handle of this connection
    stmt,           \* the statement handle the caller holds, NilRes for none
    last            \* the latest call: its name, receiver, returns and target

\* one application of the matching code to chosen inputs
VARIABLES
    probe           \* the inputs, the function applied and what it returned

\* the driver and the goroutines that create sessions
VARIABLES
    build,          \* which New is compiled in: "counter" or "random"
    sequence,       \* mockDriver.sequence
    connections,    \* mockDriver.connections / mockDriver.conns: 0 for absent
    mu,             \* mockDriver.mu: the writer holding it, and the readers
    procs,          \* each goroutine's position and locals
    heap            \* the connections allocated so far, with their DSN

connVars == <<expectations, active, hasTx, stmt, last>>

driverVars == <<build, sequence, connections, mu, procs, heap>>

vars == <<expectations, active, hasTx, stmt, last, probe,
          build, sequence, connections, mu, procs, heap>>

\* a freshly declared expectation of kind k with pattern p
NewExpectation(k, p) ==
    [kind |-> k, triggered |-> FALSE, err |-> NoErr, sqlRegex |-> p,
     args |-> NilArgs, result |-> NilRes, rows |-> NilRes]

NoCall == [op |-> "None", via |-> "none", err |-> NoErr, res |-> NilRes, idx |-> 0]

Call(o, v, e, r, i) == [op |-> o, via |-> v, err |-> e, res |-> r, idx |-> i]

fulfilled(e) == e.triggered

\* next, scanning from the tail: the last unfulfilled expectation
nextLast(exps) ==
    IF \E i \in 1..Len(exps) : ~fulfilled(exps[i])
    THEN CHOOSE i \in 1..Len(exps) :
            /\ ~fulfilled(exps[i])
            /\ \A j \in (i + 1)..Len(exps) : fulfilled(exps[j])
    ELSE 0

\* index of the first unfulfilled expectation, 0 when there is none
next(exps) ==
    IF \E i \in 1..Len(exps) : ~fulfilled(exps[i])
    THEN CHOOSE i \in 1..Len(exps) :
            /\ ~fulfilled(exps[i])
            /\ \A j \in 1..(i - 1) : fulfilled(exps[j])
    ELSE 0

Init ==
    /\ expectations = <<>>
    /\ active = 0
    /\ hasTx = FALSE
    /\ stmt = NilRes
    /\ last = NoCall
    /\ probe = [eq |-> NewExpectation("Query", <<>>), query |-> <<>>,
                args |-> <<>>, fn |-> "none", am |-> "none",
                res |-> NilRes, err |-> NoErr]
    /\ build = "counter"
    /\ sequence = 0
    /\ connections = [d \in 0..(NumProcs - 1) |-> 0]
    /\ mu = [writer |-> 0, readers |-> {}]
    /\ procs = [p \in 1..NumProcs |->
                  [pc |-> "new", src |-> "none", dsn |-> 0, c |-> 0,
                   found |-> 0, err |-> "nil"]]
    /\ heap = {}

(* ------------------------------------------------------------------------ *)
(* Declarations (MockDB) and builders                                       *)
(* ------------------------------------------------------------------------ *)

\* Declare, putting the new expectation at the head of the list
DeclarePrepend(k, p) ==
    /\ Len(expectations) < MaxLen
    /\ expectations' = <<NewExpectation(k, p)>> \o expectations
    /\ active' = 1
    /\ last' = NoCall
    /\ UNCHANGED <<hasTx, stmt>>

Declare(k, p) ==
    /\ Len(expectations) < MaxLen
    /\ expectations' = Append(expectations, NewExpectation(k, p))
    /\ active' = Len(expectations) + 1
    /\ last' = NoCall
    /\ UNCHANGED <<hasTx, stmt>>

ExpectBegin == Declare("Begin", <<>>)

ExpectCommit == Declare("Commit", <<>>)

ExpectRollback == Declare("Rollback", <<>>)

ExpectPrepare == Declare("Prepare", <<>>)

ExpectExec(sqlRegexStr) == Declare("Exec", sqlRegexStr)

ExpectQuery(sqlRegexStr) == Declare("Query", sqlRegexStr)

WillReturnError(i, err) ==
    /\ i \in 1..Len(expectations)
    /\ expectations' = [expectations EXCEPT ![i].err = err]
    /\ last' = NoCall
    /\ UNCHANGED <<active, hasTx, stmt>>

WithArgs(i, args) ==
    /\ i \in 1..Len(expectations)
    /\ expectations[i].kind \in {"Exec", "Query"}
    /\ expectations' = [expectations EXCEPT ![i].args = args]
    /\ last' = NoCall
    /\ UNCHANGED <<active, hasTx, stmt>>

WillReturnResult(i, result) ==
    /\ i \in 1..Len(expectations)
    /\ expectations[i].kind = "Exec"
    /\ expectations' = [expectations EXCEPT ![i].result = result]
    /\ last' = NoCall
    /\ UNCHANGED <<active, hasTx, stmt>>

WillReturnRows(i, rows) ==
    /\ i \in 1..Len(expectations)
    /\ expectations[i].kind = "Query"
    /\ expectations' = [expectations EXCEPT ![i].rows = rows]
    /\ last' = NoCall
    /\ UNCHANGED <<active, hasTx, stmt>>

(* ------------------------------------------------------------------------ *)
(* Matchers                                                                 *)
(* ------------------------------------------------------------------------ *)

RECURSIVE collapse(_)
\* runs of spaces become one space
collapse(s) ==
    IF Len(s) <= 1 THEN s
    ELSE IF s[1] = " " /\ s[2] = " " THEN collapse(Tail(s))
    ELSE <<s[1]>> \o collapse(Tail(s))

RECURSIVE trimLeft(_)
trimLeft(s) ==
    IF s # <<>> /\ s[1] = " " THEN trimLeft(Tail(s)) ELSE s

RECURSIVE trimRight(_)
trimRight(s) ==
    IF s # <<>> /\ s[Len(s)] = " " THEN trimRight(SubSeq(s, 1, Len(s) - 1)) ELSE s

\* the query text with interior whitespace collapsed and the ends trimmed
stripQuery(q) == trimRight(trimLeft(collapse(q)))

\* regexp search of a literal pattern: the pattern occurs somewhere in sql
queryMatches(e, sql) ==
    \E i \in 1..(Len(sql) - Len(e.sqlRegex) + 1) :
        SubSeq(sql, i, i + Len(e.sqlRegex) - 1) = e.sqlRegex

\* reflect.Value.String: the text of a string, and for a value of any other
\* kind no panic but the text "<T Value>" naming its type
stringOf(a) ==
    IF a.cls = "string" THEN a.v
    ELSE CASE a.cls = "int" -> "<int Value>"
           [] a.cls = "uint" -> "<uint Value>"
           [] a.cls = "float" -> "<float64 Value>"
           [] a.cls = "struct" -> "<time.Time Value>"
           [] a.cls = "bool" -> "<bool Value>"
           [] OTHER -> "<invalid Value>"

\* argCompare, the values of the other kinds compared by content as well
argCompareByValue(v, a) ==
    IF v.cls \in {"int", "float", "uint"}
    THEN IF a.cls # v.cls THEN "panic"
         ELSE IF v.v # a.v THEN "differ" ELSE "ok"
    ELSE IF v.cls = "string"
    THEN IF v.v # stringOf(a) THEN "differ" ELSE "ok"
    ELSE IF v.cls # a.cls \/ v.v # a.v THEN "differ" ELSE "ok"

\* one position of argsMatches, v the actual and a the expected value: "ok",
\* "differ", or "panic" when the reflect accessor of the actual value's kind
\* (Int, Float, Uint) is applied to an expected value of another kind
argCompare(v, a) ==
    IF v.cls \in {"int", "float", "uint"}
    THEN IF a.cls # v.cls THEN "panic"
         ELSE IF v.v # a.v THEN "differ" ELSE "ok"
    ELSE IF v.cls = "string"
    THEN IF v.v # stringOf(a) THEN "differ" ELSE "ok"
    ELSE IF v.cls # a.cls THEN "differ" ELSE "ok"

\* argsMatches, an expected list without values taken for no list at all
argsMatchesEmptyWild(e, args) ==
    IF e.args.isNil \/ Len(e.args.vals) = 0 THEN "true"
    ELSE IF Len(args) # Len(e.args.vals) THEN "false"
    ELSE IF \A k \in 1..Len(args) : argCompare(args[k], e.args.vals[k]) = "ok"
    THEN "true"
    ELSE LET k == CHOOSE k \in 1..Len(args) :
                    /\ argCompare(args[k], e.args.vals[k]) # "ok"
                    /\ \A j \in 1..(k - 1) : argCompare(args[j], e.args.vals[j]) = "ok"
         IN IF argCompare(args[k], e.args.vals[k]) = "panic" THEN "panic" ELSE "false"

\* "true", "false" or "panic": the first position that is not "ok" decides
argsMatches(e, args) ==
    IF e.args.isNil THEN "true"
    ELSE IF Len(args) # Len(e.args.vals) THEN "false"
    ELSE IF \A k \in 1..Len(args) : argCompare(args[k], e.args.vals[k]) = "ok"
    THEN "true"
    ELSE LET k == CHOOSE k \in 1..Len(args) :
                    /\ argCompare(args[k], e.args.vals[k]) # "ok"
                    /\ \A j \in 1..(k - 1) : argCompare(args[j], e.args.vals[j]) = "ok"
         IN IF argCompare(args[k], e.args.vals[k]) = "panic" THEN "panic" ELSE "false"

(* ------------------------------------------------------------------------ *)
(* Driver operations (mockConn, transaction, statement)                     *)
(* ------------------------------------------------------------------------ *)

\* trigger, setting the flag on a copy of the expectation
triggerCopy(exps, i) == exps

\* trigger, dropping the expectation from the list once it is consumed
triggerRemove(exps, i) ==
    [j \in 1..(Len(exps) - 1) |-> IF j < i THEN exps[j] ELSE exps[j + 1]]

\* the expectations with the i-th one marked triggered
trigger(exps, i) == [exps EXCEPT ![i].triggered = TRUE]

\* Begin, without the check for an empty result of next
BeginLenient ==
    LET e == next(expectations) IN
    IF e = 0
    THEN /\ hasTx' = TRUE
         /\ last' = Call("Begin", "conn", NoErr, TxHandle, 0)
         /\ UNCHANGED <<expectations, active, stmt>>
    ELSE IF expectations[e].kind # "Begin"
    THEN /\ last' = Call("Begin", "conn", ErrSequence(expectations[e].kind), NilRes, 0)
         /\ UNCHANGED <<expectations, active, hasTx, stmt>>
    ELSE /\ expectations' = [expectations EXCEPT ![e].triggered = TRUE]
         /\ hasTx' = TRUE
         /\ last' = Call("Begin", "conn", expectations[e].err, TxHandle, e)
         /\ UNCHANGED <<active, stmt>>

\* Begin, the planned error cleared once it has been returned
BeginClearsErr ==
    LET e == next(expectations) IN
    IF e = 0
    THEN /\ last' = Call("Begin", "conn", ErrUnexpected("Begin"), NilRes, 0)
         /\ UNCHANGED <<expectations, active, hasTx, stmt>>
    ELSE IF expectations[e].kind # "Begin"
    THEN /\ last' = Call("Begin", "conn", ErrSequence(expectations[e].kind), NilRes, 0)
         /\ UNCHANGED <<expectations, active, hasTx, stmt>>
    ELSE /\ expectations' = [expectations EXCEPT ![e].triggered = TRUE,
                                                  ![e].err = NoErr]
         /\ hasTx' = TRUE
         /\ last' = Call("Begin", "conn", expectations[e].err, TxHandle, e)
         /\ UNCHANGED <<active, stmt>>

Begin ==
    LET e == next(expectations) IN
    IF e = 0
    THEN /\ last' = Call("Begin", "conn", ErrUnexpected("Begin"), NilRes, 0)
         /\ UNCHANGED <<expectations, active, hasTx, stmt>>
    ELSE IF expectations[e].kind # "Begin"
    THEN /\ last' = Call("Begin", "conn", ErrSequence(expectations[e].kind), NilRes, 0)
         /\ UNCHANGED <<expectations, active, hasTx, stmt>>
    ELSE /\ expectations' = trigger(expectations, e)
         /\ hasTx' = TRUE
         /\ last' = Call("Begin", "conn", expectations[e].err, TxHandle, e)
         /\ UNCHANGED <<active, stmt>>

\* TxEnd, returning nil where the expectation's error is returned
TxEndSwallow(k) ==
    LET e == next(expectations) IN
    /\ hasTx
    /\ IF e = 0
       THEN /\ last' = Call(k, "tx", ErrUnexpected(k), NilRes, 0)
            /\ UNCHANGED <<expectations, active, hasTx, stmt>>
       ELSE IF expectations[e].kind # k
       THEN /\ last' = Call(k, "tx", ErrSequence(expectations[e].kind), NilRes, 0)
            /\ UNCHANGED <<expectations, active, hasTx, stmt>>
       ELSE /\ expectations' = [expectations EXCEPT ![e].triggered = TRUE]
            /\ last' = Call(k, "tx", NoErr, NilRes, e)
            /\ UNCHANGED <<active, hasTx, stmt>>

\* TxEnd, consuming the pending expectation although it is of another kind
TxEndConsume(k) ==
    LET e == next(expectations) IN
    /\ hasTx
    /\ IF e = 0
       THEN /\ last' = Call(k, "tx", ErrUnexpected(k), NilRes, 0)
            /\ UNCHANGED <<expectations, active, hasTx, stmt>>
       ELSE IF expectations[e].kind # k
       THEN /\ expectations' = [expectations EXCEPT ![e].triggered = TRUE]
            /\ last' = Call(k, "tx", ErrSequence(expectations[e].kind), NilRes, 0)
            /\ UNCHANGED <<active, hasTx, stmt>>
       ELSE /\ expectations' = [expectations EXCEPT ![e].triggered = TRUE]
            /\ last' = Call(k, "tx", expectations[e].err, NilRes, e)
            /\ UNCHANGED <<active, hasTx, stmt>>

\* TxEnd, refused unless the list holds a Begin that was made without error
TxEndNeedsBegin(k) ==
    LET e == next(expectations)
        begun == \E i \in 1..Len(expectations) :
                    /\ expectations[i].kind = "Begin"
                    /\ expectations[i].triggered
                    /\ expectations[i].err = NoErr
    IN
    /\ hasTx
    /\ IF e = 0 \/ ~begun
       THEN /\ last' = Call(k, "tx", ErrUnexpected(k), NilRes, 0)
            /\ UNCHANGED <<expectations, active, hasTx, stmt>>
       ELSE IF expectations[e].kind # k
       THEN /\ last' = Call(k, "tx", ErrSequence(expectations[e].kind), NilRes, 0)
            /\ UNCHANGED <<expectations, active, hasTx, stmt>>
       ELSE /\ expectations' = [expectations EXCEPT ![e].triggered = TRUE]
            /\ last' = Call(k, "tx", expectations[e].err, NilRes, e)
            /\ UNCHANGED <<active, hasTx, stmt>>

\* transaction.Commit and transaction.Rollback
TxEnd(k) ==
    LET e == next(expectations) IN
    /\ hasTx
    /\ IF e = 0
       THEN /\ last' = Call(k, "tx", ErrUnexpected(k), NilRes, 0)
            /\ UNCHANGED <<expectations, active, hasTx, stmt>>
       ELSE IF expectations[e].kind # k
       THEN /\ last' = Call(k, "tx", ErrSequence(expectations[e].kind), NilRes, 0)
            /\ UNCHANGED <<expectations, active, hasTx, stmt>>
       ELSE /\ expectations' = trigger(expectations, e)
            /\ last' = Call(k, "tx", expectations[e].err, NilRes, e)
            /\ UNCHANGED <<active, hasTx, stmt>>

Commit == TxEnd("Commit")

Rollback == TxEnd("Rollback")

\* Prepare, held to the strict sequence like the other operations
PrepareStrict(query) ==
    LET e == next(expectations) IN
    IF e = 0
    THEN /\ last' = Call("Prepare", "conn", ErrUnexpected("Prepare"), NilRes, 0)
         /\ UNCHANGED <<expectations, active, hasTx, stmt>>
    ELSE IF expectations[e].kind # "Prepare"
    THEN /\ last' = Call("Prepare", "conn", ErrSequence(expectations[e].kind), NilRes, 0)
         /\ UNCHANGED <<expectations, active, hasTx, stmt>>
    ELSE /\ expectations' = [expectations EXCEPT ![e].triggered = TRUE]
         /\ IF expectations[e].err # NoErr
            THEN /\ last' = Call("Prepare", "conn", expectations[e].err, NilRes, e)
                 /\ UNCHANGED stmt
            ELSE /\ stmt' = StmtHandle(stripQuery(query))
                 /\ last' = Call("Prepare", "conn", NoErr, StmtHandle(stripQuery(query)), e)
         /\ UNCHANGED <<active, hasTx>>

\* Prepare, returning the statement next to the planned error as Begin does
PrepareHandleOnErr(query) ==
    LET e == next(expectations) IN
    IF e = 0 \/ (e # 0 /\ expectations[e].kind # "Prepare")
    THEN /\ stmt' = StmtHandle(stripQuery(query))
         /\ last' = Call("Prepare", "conn", NoErr, StmtHandle(stripQuery(query)), 0)
         /\ UNCHANGED <<expectations, active, hasTx>>
    ELSE /\ expectations' = [expectations EXCEPT ![e].triggered = TRUE]
         /\ stmt' = StmtHandle(stripQuery(query))
         /\ last' = Call("Prepare", "conn", expectations[e].err,
                         StmtHandle(stripQuery(query)), e)
         /\ UNCHANGED <<active, hasTx>>

Prepare(query) ==
    LET e == next(expectations) IN
    IF e = 0 \/ (e # 0 /\ expectations[e].kind # "Prepare")
    THEN /\ stmt' = StmtHandle(stripQuery(query))
         /\ last' = Call("Prepare", "conn", NoErr, StmtHandle(stripQuery(query)), 0)
         /\ UNCHANGED <<expectations, active, hasTx>>
    ELSE /\ expectations' = trigger(expectations, e)
         /\ IF expectations[e].err # NoErr
            THEN /\ last' = Call("Prepare", "conn", expectations[e].err, NilRes, e)
                 /\ UNCHANGED stmt
            ELSE /\ stmt' = StmtHandle(stripQuery(query))
                 /\ last' = Call("Prepare", "conn", NoErr, StmtHandle(stripQuery(query)), e)
         /\ UNCHANGED <<active, hasTx>>

\* matched, the pattern and the arguments checked before the planned error
\* and the payload
matchedChecksFirst(eq, payload, query, args) ==
    IF ~queryMatches(eq, query) THEN <<NilRes, ErrQueryMismatch>>
    ELSE IF argsMatches(eq, args) = "panic" THEN <<NilRes, ErrArgFault>>
    ELSE IF argsMatches(eq, args) = "false" THEN <<NilRes, ErrArgMismatch>>
    ELSE IF eq.err # NoErr THEN <<NilRes, eq.err>>
    ELSE IF payload = NilRes THEN <<NilRes, ErrMisconfigured>>
    ELSE <<payload, NoErr>>

\* matched, without the comparison of the arguments
matchedNoArgs(eq, payload, query, args) ==
    IF eq.err # NoErr THEN <<NilRes, eq.err>>
    ELSE IF payload = NilRes THEN <<NilRes, ErrMisconfigured>>
    ELSE IF ~queryMatches(eq, query) THEN <<NilRes, ErrQueryMismatch>>
    ELSE <<payload, NoErr>>

\* matched, the recovered fault written to a copy of err: nil, nil is returned
matchedLostErr(eq, payload, query, args) ==
    IF eq.err # NoErr THEN <<NilRes, eq.err>>
    ELSE IF payload = NilRes THEN <<NilRes, ErrMisconfigured>>
    ELSE IF ~queryMatches(eq, query) THEN <<NilRes, ErrQueryMismatch>>
    ELSE IF argsMatches(eq, args) = "panic" THEN <<NilRes, NoErr>>
    ELSE IF argsMatches(eq, args) = "false" THEN <<NilRes, ErrArgMismatch>>
    ELSE <<payload, NoErr>>

\* matched, the payload handed out together with the argument mismatch
matchedPayloadWithErr(eq, payload, query, args) ==
    IF eq.err # NoErr THEN <<NilRes, eq.err>>
    ELSE IF payload = NilRes THEN <<NilRes, ErrMisconfigured>>
    ELSE IF ~queryMatches(eq, query) THEN <<NilRes, ErrQueryMismatch>>
    ELSE IF argsMatches(eq, args) = "panic" THEN <<NilRes, ErrArgFault>>
    ELSE IF argsMatches(eq, args) = "false" THEN <<payload, ErrArgMismatch>>
    ELSE <<payload, NoErr>>

\* what Exec and Query return once they reached the expectation eq of their
\* kind: <<payload, error>>
matched(eq, payload, query, args) ==
    IF eq.err # NoErr THEN <<NilRes, eq.err>>
    ELSE IF payload = NilRes THEN <<NilRes, ErrMisconfigured>>
    ELSE IF ~queryMatches(eq, query) THEN <<NilRes, ErrQueryMismatch>>
    ELSE IF argsMatches(eq, args) = "panic" THEN <<NilRes, ErrArgFault>>
    ELSE IF argsMatches(eq, args) = "false" THEN <<NilRes, ErrArgMismatch>>
    ELSE <<payload, NoErr>>

\* ConnCall, looking for the first unfulfilled expectation of its own kind
ConnCallSearch(k, via, q, args) ==
    LET own == {i \in 1..Len(expectations) :
                    ~expectations[i].triggered /\ expectations[i].kind = k}
        e == IF own = {} THEN next(expectations)
             ELSE CHOOSE i \in own : \A j \in own : i <= j
        query == stripQuery(q)
    IN
    IF e = 0
    THEN /\ last' = Call(k, via, ErrUnexpected(k), NilRes, 0)
         /\ UNCHANGED <<expectations, active, hasTx, stmt>>
    ELSE IF expectations[e].kind # k
    THEN /\ last' = Call(k, via, ErrSequence(expectations[e].kind), NilRes, 0)
         /\ UNCHANGED <<expectations, active, hasTx, stmt>>
    ELSE LET eq == expectations[e]
             payload == IF k = "Exec" THEN eq.result ELSE eq.rows
             ret == matched(eq, payload, query, args)
         IN /\ expectations' = [expectations EXCEPT ![e].triggered = TRUE]
            /\ last' = Call(k, via, ret[2], ret[1], e)
            /\ UNCHANGED <<active, hasTx, stmt>>

\* ConnCall, marking the expectation only once every check has passed
ConnCallLate(k, via, q, args) ==
    LET e == next(expectations)
        query == stripQuery(q)
    IN
    IF e = 0
    THEN /\ last' = Call(k, via, ErrUnexpected(k), NilRes, 0)
         /\ UNCHANGED <<expectations, active, hasTx, stmt>>
    ELSE IF expectations[e].kind # k
    THEN /\ last' = Call(k, via, ErrSequence(expectations[e].kind), NilRes, 0)
         /\ UNCHANGED <<expectations, active, hasTx, stmt>>
    ELSE LET eq == expectations[e]
             payload == IF k = "Exec" THEN eq.result ELSE eq.rows
             ret == matched(eq, payload, query, args)
         IN /\ expectations' = IF ret[2] = NoErr
                               THEN [expectations EXCEPT ![e].triggered = TRUE]
                               ELSE expectations
            /\ last' = Call(k, via, ret[2], ret[1], e)
            /\ UNCHANGED <<active, hasTx, stmt>>

\* mockConn.Exec and mockConn.Query, called directly or through a statement
ConnCall(k, via, q, args) ==
    LET e == next(expectations)
        query == stripQuery(q)
    IN
    IF e = 0
    THEN /\ last' = Call(k, via, ErrUnexpected(k), NilRes, 0)
         /\ UNCHANGED <<expectations, active, hasTx, stmt>>
    ELSE IF expectations[e].kind # k
    THEN /\ last' = Call(k, via, ErrSequence(expectations[e].kind), NilRes, 0)
         /\ UNCHANGED <<expectations, active, hasTx, stmt>>
    ELSE LET eq == expectations[e]
             payload == IF k = "Exec" THEN eq.result ELSE eq.rows
             ret == matched(eq, payload, query, args)
         IN /\ expectations' = trigger(expectations, e)
            /\ last' = Call(k, via, ret[2], ret[1], e)
            /\ UNCHANGED <<active, hasTx, stmt>>

Exec(query, args) == ConnCall("Exec", "conn", query, args)

Query(query, args) == ConnCall("Query", "conn", query, args)

\* StmtExec, handing no arguments on to the connection
StmtExecNoArgs(args) ==
    /\ stmt # NilRes
    /\ ConnCall("Exec", "stmt", stmt.val, <<>>)

StmtExec(args) ==
    /\ stmt # NilRes
    /\ ConnCall("Exec", "stmt", stmt.val, args)

StmtQuery(args) ==
    /\ stmt # NilRes
    /\ ConnCall("Query", "stmt", stmt.val, args)

\* closeErr, the loop not left at the first unfulfilled expectation
closeErrLast(exps) ==
    IF \A i \in 1..Len(exps) : exps[i].triggered THEN NoErr
    ELSE LET i == CHOOSE i \in 1..Len(exps) :
                    /\ ~exps[i].triggered
                    /\ \A j \in (i + 1)..Len(exps) : exps[j].triggered
         IN ErrUnfulfilled(exps[i].kind)

\* the error Close returns for the list exps
closeErr(exps) ==
    IF next(exps) = 0 THEN NoErr ELSE ErrUnfulfilled(exps[next(exps)].kind)

\* Close, returning from inside the loop: nothing is cleared on an error
CloseEarly ==
    /\ last' = Call("Close", "conn", closeErr(expectations), NilRes, 0)
    /\ IF closeErr(expectations) # NoErr
       THEN UNCHANGED <<expectations, active>>
       ELSE expectations' = <<>> /\ active' = 0
    /\ UNCHANGED <<hasTx, stmt>>

\* Close, reporting only: the list of expectations is kept
CloseKeep ==
    /\ last' = Call("Close", "conn", closeErr(expectations), NilRes, 0)
    /\ UNCHANGED <<expectations, active, hasTx, stmt>>

Close ==
    /\ last' = Call("Close", "conn", closeErr(expectations), NilRes, 0)
    /\ expectations' = <<>>
    /\ active' = 0
    /\ UNCHANGED <<hasTx, stmt>>

(* ------------------------------------------------------------------------ *)
(* The matching code applied to chosen inputs                               *)
(* ------------------------------------------------------------------------ *)

\* the values an argument list is built from
ProbeVals ==
    {Val("int", 5), Val("int", 6), Val("uint", 5), Val("float", 5),
     Val("string", "a"), Val("string", "<int Value>"),
     Val("struct", 1), Val("struct", 2), Val("bool", TRUE)}

\* the argument lists of at most MaxArgs values
ProbeLists == UNION {[1..k -> ProbeVals] : k \in 0..MaxArgs}

\* nothing applied yet to the expectation eq, the query text and the arguments
NewProbe(eq, query, args) ==
    [eq |-> eq, query |-> query, args |-> args,
     fn |-> "none", am |-> "none", res |-> NilRes, err |-> NoErr]

\* any two argument lists, on an expectation that passes the earlier checks
MatcherInputs ==
    {NewProbe([NewExpectation("Query", <<"a", " ", "b">>)
                  EXCEPT !.args = ea, !.rows = r],
              <<" ", "a", " ", " ", "b">>, al) :
        r \in RowsVals,
        ea \in {NilArgs} \cup {Args(l) : l \in ProbeLists}, al \in ProbeLists}

\* every combination of planned error, payload, pattern match and arguments
OutcomeInputs ==
    {NewProbe([NewExpectation("Exec", pat)
                  EXCEPT !.err = e, !.args = ea, !.result = r],
              q, al) :
        pat \in Patterns, e \in {NoErr} \cup ErrVals,
        r \in {NilRes} \cup ResultVals,
        ea \in DeclArgs, q \in Queries, al \in CallArgs}
    \cup
    {NewProbe([NewExpectation("Query", pat)
                  EXCEPT !.err = e, !.args = ea, !.rows = r],
              q, al) :
        pat \in Patterns, e \in {NoErr} \cup ErrVals,
        r \in {NilRes} \cup RowsVals,
        ea \in DeclArgs, q \in Queries, al \in CallArgs}

NoProbe == NewProbe(NewExpectation("Query", <<>>), <<>>, <<>>)

\* argsMatches called on the inputs
ApplyArgsMatches ==
    /\ probe.fn = "none"
    /\ probe' = [probe EXCEPT !.fn = "argsMatches",
                              !.am = argsMatches(probe.eq, probe.args)]

\* the body of Exec and Query from the planned error on, called on the inputs
ApplyMatched ==
    /\ probe.fn = "none"
    /\ LET payload == IF probe.eq.kind = "Exec" THEN probe.eq.result
                      ELSE probe.eq.rows
           ret == matched(probe.eq, payload, stripQuery(probe.query), probe.args)
       IN probe' = [probe EXCEPT !.fn = "matched", !.res = ret[1], !.err = ret[2]]

(* ------------------------------------------------------------------------ *)
(* The driver: identifiers and the registry of connections                  *)
(* ------------------------------------------------------------------------ *)

Procs == 1..NumProcs

\* the identifiers: the values of the counter, or of the random bytes
DSNs == 0..(NumProcs - 1)

NewProc ==
    [pc |-> "new", src |-> "none", dsn |-> 0, c |-> 0, found |-> 0, err |-> "nil"]

Unlocked == [writer |-> 0, readers |-> {}]

\* Lock, taken without waiting for the holder to release it
LockNoWait(p) == mu' = [mu EXCEPT !.writer = p]

\* sync.Mutex.Lock and sync.RWMutex.Lock
Lock(p) ==
    /\ mu.writer = 0
    /\ mu.readers = {}
    /\ mu' = [mu EXCEPT !.writer = p]

Unlock(p) == mu' = [mu EXCEPT !.writer = 0]

\* sync.RWMutex.RLock
RLock(p) ==
    /\ mu.writer = 0
    /\ mu' = [mu EXCEPT !.readers = @ \cup {p}]

RUnlock(p) == mu' = [mu EXCEPT !.readers = @ \ {p}]

\* reserveDSN: the lock is taken
reserveDSNLock(p) ==
    /\ build = "counter"
    /\ procs[p].pc = "new"
    /\ Lock(p)
    /\ procs' = [procs EXCEPT ![p].pc = "reserveRead", ![p].src = "reserve"]
    /\ UNCHANGED <<build, sequence, connections, heap>>

\* reserveDSN: the DSN is formatted from the counter
reserveDSNRead(p) ==
    /\ procs[p].pc = "reserveRead"
    /\ procs' = [procs EXCEPT ![p].pc = "reserveIncr", ![p].dsn = sequence]
    /\ UNCHANGED <<build, sequence, connections, mu, heap>>

\* reserveDSN: the counter is incremented
reserveDSNIncr(p) ==
    /\ procs[p].pc = "reserveIncr"
    /\ sequence' = sequence + 1
    /\ procs' = [procs EXCEPT ![p].pc = "reserveUnlock"]
    /\ UNCHANGED <<build, connections, mu, heap>>

\* reserveDSN: the deferred Unlock, and New goes on to open the connection
reserveDSNUnlock(p) ==
    /\ procs[p].pc = "reserveUnlock"
    /\ Unlock(p)
    /\ procs' = [procs EXCEPT ![p].pc = "openLock"]
    /\ UNCHANGED <<build, sequence, connections, heap>>

\* generateDSN: sixteen random bytes, or the error of the random source
generateDSN(p) ==
    /\ build = "random"
    /\ procs[p].pc = "new"
    /\ \/ \E d \in DSNs :
            procs' = [procs EXCEPT ![p].pc = "openLock", ![p].src = "generate",
                                   ![p].dsn = d]
       \/ procs' = [procs EXCEPT ![p].pc = "failed", ![p].src = "generate",
                                 ![p].err = "rand"]
    /\ UNCHANGED <<build, sequence, connections, mu, heap>>

\* database/sql opens one more connection of a session that exists
poolOpen(p) ==
    /\ procs[p].pc = "new"
    /\ \E q \in Procs :
        /\ procs[q].src \in {"reserve", "generate"}
        /\ procs[q].pc \in {"openLock", "openLookup", "openInsert", "openUnlock",
                             "lookupLock", "lookupRead", "lookupUnlock", "done"}
        /\ procs' = [procs EXCEPT ![p].pc = "openLock", ![p].src = "pool",
                                  ![p].dsn = procs[q].dsn]
    /\ UNCHANGED <<build, sequence, connections, mu, heap>>

\* Open: the lock is taken
OpenLock(p) ==
    /\ procs[p].pc = "openLock"
    /\ Lock(p)
    /\ procs' = [procs EXCEPT ![p].pc = "openLookup"]
    /\ UNCHANGED <<build, sequence, connections, heap>>

\* OpenLookup, the entry never found
OpenLookupMiss(p) ==
    /\ procs[p].pc = "openLookup"
    /\ procs' = [procs EXCEPT ![p].pc = "openInsert"]
    /\ UNCHANGED <<build, sequence, connections, mu, heap>>

\* Open: the lookup of the DSN; an entry that exists is a collision error in
\* the build with the counter, and is returned in the build with random DSNs
OpenLookup(p) ==
    /\ procs[p].pc = "openLookup"
    /\ LET c == connections[procs[p].dsn] IN
       procs' = IF c = 0
                THEN [procs EXCEPT ![p].pc = "openInsert"]
                ELSE IF build = "counter"
                THEN [procs EXCEPT ![p].pc = "openUnlock", ![p].c = 0,
                                   ![p].err = "collision"]
                ELSE [procs EXCEPT ![p].pc = "openUnlock", ![p].c = c]
    /\ UNCHANGED <<build, sequence, connections, mu, heap>>

\* Open: a connection is allocated and stored under the DSN
OpenInsert(p) ==
    /\ procs[p].pc = "openInsert"
    /\ LET c == Cardinality(heap) + 1 IN
       /\ heap' = heap \cup {[dsn |-> procs[p].dsn, c |-> c]}
       /\ connections' = [connections EXCEPT ![procs[p].dsn] = c]
       /\ procs' = [procs EXCEPT ![p].pc = "openUnlock", ![p].c = c]
    /\ UNCHANGED <<build, sequence, mu>>

\* Open: the deferred Unlock. New returns the error of Ping; in the build with
\* the counter its second sql.Open names the driver "mock", which that build
\* does not register itself: New fails there unless the binary registers it
OpenUnlock(p) ==
    /\ procs[p].pc = "openUnlock"
    /\ Unlock(p)
    /\ \/ /\ procs[p].err # "nil"
          /\ procs' = [procs EXCEPT ![p].pc = "failed"]
       \/ /\ procs[p].err = "nil" /\ procs[p].src = "pool"
          /\ procs' = [procs EXCEPT ![p].pc = "done"]
       \/ /\ procs[p].err = "nil" /\ procs[p].src # "pool"
          /\ procs' = [procs EXCEPT ![p].pc = "lookupLock"]
       \/ /\ procs[p].err = "nil" /\ procs[p].src # "pool" /\ build = "counter"
          /\ procs' = [procs EXCEPT ![p].pc = "failed", ![p].err = "driver"]
    /\ UNCHANGED <<build, sequence, connections, heap>>

\* getConnection takes the lock; New of the other build takes the read lock
getConnectionLock(p) ==
    /\ procs[p].pc = "lookupLock"
    /\ IF build = "counter" THEN Lock(p) ELSE RLock(p)
    /\ procs' = [procs EXCEPT ![p].pc = "lookupRead"]
    /\ UNCHANGED <<build, sequence, connections, heap>>

\* the lookup of the DSN in the registry
getConnectionRead(p) ==
    /\ procs[p].pc = "lookupRead"
    /\ procs' = [procs EXCEPT ![p].pc = "lookupUnlock",
                              ![p].found = connections[procs[p].dsn]]
    /\ UNCHANGED <<build, sequence, connections, mu, heap>>

\* the deferred unlock; New fails when the lookup found nothing
getConnectionUnlock(p) ==
    /\ procs[p].pc = "lookupUnlock"
    /\ IF build = "counter" THEN Unlock(p) ELSE RUnlock(p)
    /\ procs' = IF procs[p].found = 0
                THEN [procs EXCEPT ![p].pc = "failed", ![p].err = "lookup"]
                ELSE [procs EXCEPT ![p].pc = "done"]
    /\ UNCHANGED <<build, sequence, connections, heap>>

\* the driver after init, no goroutine started
DriverIdle ==
    /\ sequence = 0
    /\ connections = [d \in DSNs |-> 0]
    /\ mu = Unlocked
    /\ procs = [p \in Procs |-> NewProc]
    /\ heap = {}

\* the connection as New leaves it
ConnIdle ==
    /\ expectations = <<>>
    /\ active = 0
    /\ hasTx = FALSE
    /\ stmt = NilRes
    /\ last = NoCall

(* ------------------------------------------------------------------------ *)
(* Specifications                                                           *)
(* ------------------------------------------------------------------------ *)

\* what the steps of one connection leave alone
Others == <<probe, build, sequence, connections, mu, procs, heap>>

Next ==
    \/ ExpectBegin /\ UNCHANGED Others
    \/ ExpectCommit /\ UNCHANGED Others
    \/ ExpectRollback /\ UNCHANGED Others
    \/ ExpectPrepare /\ UNCHANGED Others
    \/ \E p \in Patterns : (ExpectExec(p) /\ UNCHANGED Others)
    \/ \E p \in Patterns : (ExpectQuery(p) /\ UNCHANGED Others)
    \/ \E i \in 1..MaxLen, err \in ErrVals : (WillReturnError(i, err) /\ UNCHANGED Others)
    \/ \E i \in 1..MaxLen, args \in DeclArgs : (WithArgs(i, args) /\ UNCHANGED Others)
    \/ \E i \in 1..MaxLen, r \in ResultVals : (WillReturnResult(i, r) /\ UNCHANGED Others)
    \/ \E i \in 1..MaxLen, r \in RowsVals : (WillReturnRows(i, r) /\ UNCHANGED Others)
    \/ Begin /\ UNCHANGED Others
    \/ Commit /\ UNCHANGED Others
    \/ Rollback /\ UNCHANGED Others
    \/ \E q \in Queries : (Prepare(q) /\ UNCHANGED Others)
    \/ \E q \in Queries, args \in CallArgs : (Exec(q, args) /\ UNCHANGED Others)
    \/ \E q \in Queries, args \in CallArgs : (Query(q, args) /\ UNCHANGED Others)
    \/ \E args \in CallArgs : (StmtExec(args) /\ UNCHANGED Others)
    \/ \E args \in CallArgs : (StmtQuery(args) /\ UNCHANGED Others)
    \/ Close /\ UNCHANGED Others

Spec == Init /\ [][Next]_vars

\* the matching code on its own: inputs are drawn, one function is applied
InitMatch ==
    /\ ConnIdle
    /\ probe \in MatcherInputs \cup OutcomeInputs
    /\ build = "counter"
    /\ DriverIdle

NextMatch ==
    \/ ApplyArgsMatches /\ UNCHANGED connVars /\ UNCHANGED driverVars
    \/ ApplyMatched /\ UNCHANGED connVars /\ UNCHANGED driverVars

SpecMatch == InitMatch /\ [][NextMatch]_vars

\* the driver under NumProcs goroutines, in either build
InitDriver ==
    /\ ConnIdle
    /\ probe = NoProbe
    /\ build \in {"counter", "random"}
    /\ DriverIdle

NextDriver ==
    \/ \E p \in Procs : reserveDSNLock(p) /\ UNCHANGED <<connVars, probe>>
    \/ \E p \in Procs : reserveDSNRead(p) /\ UNCHANGED <<connVars, probe>>
    \/ \E p \in Procs : reserveDSNIncr(p) /\ UNCHANGED <<connVars, probe>>
    \/ \E p \in Procs : reserveDSNUnlock(p) /\ UNCHANGED <<connVars, probe>>
    \/ \E p \in Procs : generateDSN(p) /\ UNCHANGED <<connVars, probe>>
    \/ \E p \in Procs : poolOpen(p) /\ UNCHANGED <<connVars, probe>>
    \/ \E p \in Procs : OpenLock(p) /\ UNCHANGED <<connVars, probe>>
    \/ \E p \in Procs : OpenLookup(p) /\ UNCHANGED <<connVars, probe>>
    \/ \E p \in Procs : OpenInsert(p) /\ UNCHANGED <<connVars, probe>>
    \/ \E p \in Procs : OpenUnlock(p) /\ UNCHANGED <<connVars, probe>>
    \/ \E p \in Procs : getConnectionLock(p) /\ UNCHANGED <<connVars, probe>>
    \/ \E p \in Procs : getConnectionRead(p) /\ UNCHANGED <<connVars, probe>>
    \/ \E p \in Procs : getConnectionUnlock(p) /\ UNCHANGED <<connVars, probe>>

SpecDriver == InitDriver /\ [][NextDriver]_vars

(* ------------------------------------------------------------------------ *)
(* Vocabulary of the properties                                             *)
(* ------------------------------------------------------------------------ *)

\* the positions of exps that are not fulfilled
Unfulfilled(exps) == {i \in 1..Len(exps) : ~exps[i].triggered}

\* the earliest declared unfulfilled position, 0 when all are fulfilled
Pending(exps) ==
    IF Unfulfilled(exps) = {} THEN 0
    ELSE CHOOSE i \in Unfulfilled(exps) : \A j \in Unfulfilled(exps) : i <= j

NumFulfilled(exps) == Len(exps) - Cardinality(Unfulfilled(exps))

\* exps2 is exps with position n, and nothing else, turned to fulfilled
OnlyFulfils(exps, exps2, n) ==
    /\ ~exps[n].triggered
    /\ exps2 = [exps EXCEPT ![n].triggered = TRUE]

\* the step is a call of one of the operations in ops
Calls(ops) == last'.op \in ops

StrictOps == {"Begin", "Commit", "Rollback", "Exec", "Query"}

(* ------------------------------------------------------------------------ *)
(* Properties                                                               *)
(* ------------------------------------------------------------------------ *)

\* C1: in every reachable state the fulfilled expectations form a prefix of
\* the list: no expectation is fulfilled while one declared before it is not.
C1_FulfilledIsPrefix ==
    \A i, j \in 1..Len(expectations) :
        (i < j /\ expectations[j].triggered) => expectations[i].triggered

\* a Query was refused although a Query expectation waits behind a Begin
C1_Witness ==
    /\ Len(expectations) = 2
    /\ last.op = "Query"
    /\ last.err.kind = "SequenceMismatch"
    /\ expectations[1].kind = "Begin" /\ ~expectations[1].triggered
    /\ expectations[2].kind = "Query" /\ ~expectations[2].triggered
    /\ expectations[2].rows # NilRes

\* C2: a call of the kind of the pending expectation Ei is dispatched to Ei and
\* fulfils Ei and nothing else, so i such calls fulfil E1..Ei in declaration
\* order, each once; a Close with every expectation fulfilled returns no error.
C2_MatchingCallsInOrder ==
    [][LET n == Pending(expectations) IN
       /\ (Calls(Kinds) /\ n # 0 /\ expectations[n].kind = last'.op) =>
             /\ last'.idx = n
             /\ n = NumFulfilled(expectations) + 1
             /\ OnlyFulfils(expectations, expectations', n)
             /\ NumFulfilled(expectations') = n
       /\ (Calls({"Close"}) /\ n = 0) => last'.err = NoErr
       /\ last'.idx # 0 => (n # 0 /\ last'.idx = n)]_vars

\* two expectations, the second call reached the second one and succeeded
C2_Witness ==
    /\ Len(expectations) = 2
    /\ \A i \in 1..2 : expectations[i].triggered
    /\ expectations[1].kind = "Begin"
    /\ expectations[2].kind = "Query"
    /\ last.op = "Query" /\ last.idx = 2 /\ last.err = NoErr
    /\ last.res \in RowsVals

\* C3: Close returns an Unfulfilled error exactly when some expectation is
\* unfulfilled at the call, naming the kind of the earliest one; otherwise
\* (empty list, all fulfilled) it returns no error.
C3_CloseReportsFirstUnfulfilled ==
    [][Calls({"Close"}) =>
        LET n == Pending(expectations) IN
        /\ (last'.err.kind = "Unfulfilled") <=> (Unfulfilled(expectations) # {})
        /\ n # 0 => last'.err = ErrUnfulfilled(expectations[n].kind)
        /\ n = 0 => last'.err = NoErr]_vars

C3_Witness ==
    /\ last.op = "Close"
    /\ last.err = ErrUnfulfilled("Rollback")

\* C4: after Close has returned, with an error or without, the list of
\* expectations is empty and the active expectation is unset.
C4_CloseClears ==
    last.op = "Close" => (expectations = <<>> /\ active = 0)

C4_Witness ==
    /\ last.op = "Close"
    /\ last.err.kind = "Unfulfilled"
    /\ expectations = <<>>

\* C5: with no unfulfilled expectation (empty list or all fulfilled), Begin,
\* Commit, Rollback, Exec and Query fail with Unexpected and return nothing.
C5_NothingPendingIsUnexpected ==
    [][(Calls(StrictOps) /\ Pending(expectations) = 0) =>
        /\ last'.err = ErrUnexpected(last'.op)
        /\ last'.res = NilRes
        /\ last'.idx = 0]_vars

\* a Commit refused because every declared expectation is fulfilled already
C5_Witness ==
    /\ last.op = "Commit"
    /\ last.err.kind = "Unexpected"
    /\ expectations # <<>>
    /\ Unfulfilled(expectations) = {}

\* C6: when the pending expectation is of another kind than the operation,
\* Begin, Commit, Rollback, Exec and Query fail with SequenceMismatch, also
\* when a later expectation is of the operation's kind.
C6_WrongKindIsSequenceMismatch ==
    [][LET n == Pending(expectations) IN
       (Calls(StrictOps) /\ n # 0 /\ expectations[n].kind # last'.op) =>
            /\ last'.err = ErrSequence(expectations[n].kind)
            /\ last'.res = NilRes
            /\ last'.idx = 0]_vars

\* an Exec refused in front of a Prepare expectation, an Exec one behind it
C6_Witness ==
    /\ Len(expectations) = 2
    /\ last.op = "Exec"
    /\ last.err = ErrSequence("Prepare")
    /\ ~expectations[1].triggered
    /\ expectations[2].kind = "Exec" /\ ~expectations[2].triggered

\* C7: Prepare with nothing pending, or with a pending expectation that is not
\* a Prepare, succeeds with a statement handle and changes no fulfilled flag;
\* Exec and Query in such a state (nothing pending, or not their kind) fail.
C7_PrepareExemption ==
    [][LET n == Pending(expectations) IN
       /\ (Calls({"Prepare"}) /\ (n = 0 \/ (n # 0 /\ expectations[n].kind # "Prepare"))) =>
            /\ last'.err = NoErr
            /\ last'.res.type = "stmt"
            /\ stmt' = last'.res
            /\ last'.idx = 0
            /\ expectations' = expectations
       /\ (Calls({"Exec", "Query"}) /\ (n = 0 \/ (n # 0 /\ expectations[n].kind # last'.op))) =>
            /\ last'.err.kind \in {"Unexpected", "SequenceMismatch"}
            /\ last'.res = NilRes
            /\ expectations' = expectations]_vars

\* Prepare went through although a Commit is the pending expectation
C7_Witness ==
    /\ last.op = "Prepare"
    /\ last.err = NoErr
    /\ last.res.type = "stmt"
    /\ Pending(expectations) # 0
    /\ expectations[Pending(expectations)].kind = "Commit"

\* C8: Prepare with a pending Prepare expectation fulfils it; it returns a
\* statement handle and no error when no error is planned, and the planned
\* error and no handle when one is.
C8_PrepareExpected ==
    [][LET n == Pending(expectations) IN
       (Calls({"Prepare"}) /\ n # 0 /\ expectations[n].kind = "Prepare") =>
            /\ OnlyFulfils(expectations, expectations', n)
            /\ last'.idx = n
            /\ expectations[n].err = NoErr =>
                  (last'.err = NoErr /\ last'.res.type = "stmt" /\ stmt' = last'.res)
            /\ expectations[n].err # NoErr =>
                  (last'.err = expectations[n].err /\ last'.res = NilRes
                     /\ stmt' = stmt)]_vars

C8_Witness ==
    /\ last.op = "Prepare"
    /\ last.idx # 0
    /\ last.err \in ErrVals
    /\ last.res = NilRes
    /\ expectations[last.idx].triggered

\* C9: Exec (Query) with a pending Exec (Query) expectation fulfils it whatever
\* the outcome; no later expectation is touched, and the following expectation
\* is the pending one afterwards.
C9_ReachedIsConsumed ==
    [][LET n == Pending(expectations) IN
       (Calls({"Exec", "Query"}) /\ n # 0 /\ expectations[n].kind = last'.op) =>
            /\ OnlyFulfils(expectations, expectations', n)
            /\ last'.idx = n
            /\ Pending(expectations') = IF n < Len(expectations) THEN n + 1 ELSE 0]_vars

\* an Exec failed on its arguments, consumed its expectation, and the Exec
\* expectation behind it is left for the next call
C9_Witness ==
    /\ Len(expectations) = 2
    /\ last.op = "Exec"
    /\ last.idx = 1
    /\ last.err = ErrArgMismatch
    /\ expectations[1].triggered
    /\ expectations[2].kind = "Exec" /\ ~expectations[2].triggered
    /\ expectations[2].args = NilArgs /\ expectations[2].result # NilRes

\* C10: for every kind, a call that reaches an expectation of its kind that
\* carries a planned error returns that very error and fulfils the expectation;
\* a Close with everything fulfilled then reports nothing.
C10_PlannedErrorVerbatim ==
    [][LET n == Pending(expectations) IN
       /\ (Calls(Kinds) /\ n # 0 /\ expectations[n].kind = last'.op
              /\ expectations[n].err # NoErr) =>
            /\ last'.err = expectations[n].err
            /\ expectations'[n].triggered
            /\ expectations'[n].err = expectations[n].err
       /\ (Calls({"Close"}) /\ n = 0) => last'.err = NoErr
       /\ (Calls({"Close"}) /\ last'.err.kind = "Unfulfilled") =>
            \E i \in Unfulfilled(expectations) : last'.err.detail = expectations[i].kind]_vars

\* a Commit returned its planned error and left nothing unfulfilled
C10_Witness ==
    /\ last.op = "Commit"
    /\ last.idx = Len(expectations)
    /\ last.err \in ErrVals
    /\ Unfulfilled(expectations) = {}

\* the query texts a call can carry: as written, or as kept by a statement
CallQueries == Queries \cup {stripQuery(q) : q \in Queries}

\* the programmed payload of an Exec or Query expectation
PayloadOf(e) == IF e.kind = "Exec" THEN e.result ELSE e.rows

\* C11: Exec (Query) returns the result (rows) of the expectation it reached
\* exactly when that expectation has no planned error, has its payload set,
\* its pattern matches the normalized query and its arguments match; what is
\* returned then is the payload declared on that very expectation.
C11_PayloadIffAllChecksPass ==
    [][Calls({"Exec", "Query"}) =>
       \A q \in CallQueries, args \in CallArgs :
        LET n == Pending(expectations)
            k == last'.op
        IN
        (ConnCall(k, last'.via, q, args) /\ n # 0 /\ expectations[n].kind = k) =>
            LET eq == expectations[n]
                pass == /\ eq.err = NoErr
                        /\ PayloadOf(eq) # NilRes
                        /\ queryMatches(eq, stripQuery(q))
                        /\ argsMatches(eq, args) = "true"
            IN /\ (last'.res # NilRes) <=> pass
               /\ pass => /\ last'.res = PayloadOf(eq)
                          /\ last'.err = NoErr
                          /\ last'.idx = n]_vars

\* an Exec was answered with the result of the expectation it reached, which
\* asks for arguments
C11_Witness ==
    /\ last.op = "Exec" /\ last.via = "conn"
    /\ last.idx # 0
    /\ last.err = NoErr
    /\ last.res \in ResultVals
    /\ last.res = expectations[last.idx].result
    /\ expectations[last.idx].args = Args(<<Val("int", 5)>>)

\* C14: when the comparison of the arguments faults on incompatible classes,
\* Exec and Query return an ArgMismatch-class error and no payload; the
\* expectation is consumed, nothing else changes, and the call that follows is
\* dispatched to the next expectation as usual.
C14_FaultBecomesError ==
    [][LET n == Pending(expectations) IN
       /\ Calls({"Exec", "Query"}) =>
          \A q \in CallQueries, args \in CallArgs :
            (/\ ConnCall(last'.op, last'.via, q, args)
             /\ n # 0 /\ expectations[n].kind = last'.op
             /\ expectations[n].err = NoErr
             /\ PayloadOf(expectations[n]) # NilRes
             /\ queryMatches(expectations[n], stripQuery(q))
             /\ expectations[n].args.isNil = FALSE
             /\ Len(args) = Len(expectations[n].args.vals)
             /\ \E i \in 1..Len(args) :
                    /\ args[i].cls \in {"int", "uint", "float"}
                    /\ expectations[n].args.vals[i].cls # args[i].cls
                    /\ \A j \in 1..(i - 1) : args[j] = expectations[n].args.vals[j])
            => /\ last'.err.kind = "ArgMismatch"
               /\ last'.res = NilRes
               /\ OnlyFulfils(expectations, expectations', n)
               /\ active' = active
       /\ (last.err = ErrArgFault /\ Calls(Kinds) /\ n # 0
              /\ expectations[n].kind = last'.op)
            => (last'.idx = n /\ OnlyFulfils(expectations, expectations', n))]_vars

\* a Query compared a floating-point argument with an expected integer
C14_Witness ==
    /\ last.op = "Query"
    /\ last.err = ErrArgFault
    /\ last.res = NilRes
    /\ expectations[last.idx].args = Args(<<Val("int", 5)>>)
    /\ expectations[last.idx].rows # NilRes
    /\ Pending(expectations) = 2

\* C17: Exec and Query on a statement are the call of mockConn.Exec and
\* mockConn.Query with the query text that was given to Prepare and the same
\* arguments, and they leave the statement as it was.
C17_StatementForwards ==
    [][last'.via = "stmt" =>
       \A args \in CallArgs :
        /\ StmtExec(args) =>
              /\ stmt' = stmt
              /\ \A q \in Queries : stripQuery(q) = stmt.val =>
                    ConnCall("Exec", "stmt", q, args)
        /\ StmtQuery(args) =>
              /\ stmt' = stmt
              /\ \A q \in Queries : stripQuery(q) = stmt.val =>
                    ConnCall("Query", "stmt", q, args)]_vars

\* one statement served two Query expectations in a row
C17_Witness ==
    /\ Len(expectations) = 2
    /\ \A i \in 1..2 : expectations[i].kind = "Query" /\ expectations[i].triggered
    /\ last.op = "Query" /\ last.via = "stmt" /\ last.idx = 2
    /\ last.res \in RowsVals
    /\ stmt.type = "stmt"

\* the classes whose values the argument matcher compares by content
ContentClasses == {"int", "uint", "float", "string"}

\* two values of the same class with the same content
SameValue(x, y) == x.cls = y.cls /\ x.v = y.v

\* C12: the argument matcher accepts every list when no arguments are
\* expected, rejects lists of another length than the expected one, and
\* otherwise accepts only if at every position an actual integer, unsigned,
\* floating-point or text value equals an expected value of the same class;
\* a Query declared with the argument 5 returns its rows for [5] and fails
\* with ArgMismatch for [6].
C12_AcceptsOnlyEqualSameClass ==
    LET ea == probe.eq.args
        al == probe.args
    IN
    /\ probe.fn = "argsMatches" =>
          IF ea.isNil THEN probe.am = "true"
          ELSE IF Len(al) # Len(ea.vals) THEN probe.am = "false"
          ELSE probe.am = "true" =>
                  \A k \in 1..Len(al) :
                      al[k].cls \in ContentClasses => SameValue(al[k], ea.vals[k])
    /\ (/\ probe.fn = "matched"
        /\ probe.eq.kind = "Query"
        /\ probe.eq.err = NoErr
        /\ probe.eq.rows # NilRes
        /\ queryMatches(probe.eq, stripQuery(probe.query))
        /\ ea = Args(<<Val("int", 5)>>))
       => /\ al = <<Val("int", 5)>> =>
                (probe.res = probe.eq.rows /\ probe.err = NoErr)
          /\ al = <<Val("int", 6)>> =>
                (probe.res = NilRes /\ probe.err = ErrArgMismatch)

\* C13: at a position whose actual value is neither a number nor a text, the
\* argument matcher takes the two values for equal whenever they are of the
\* same kind, whatever their content, and for different when their kinds
\* differ: two times of different instants match.
C13_SameCategoryIsEqual ==
    LET ea == probe.eq.args
        al == probe.args
        loose(k) == al[k].cls \notin ContentClasses /\ al[k].cls = ea.vals[k].cls
        fine(k) == loose(k) \/ SameValue(al[k], ea.vals[k])
    IN
    (probe.fn = "argsMatches" /\ ~ea.isNil /\ Len(al) = Len(ea.vals)) =>
        /\ (\A k \in 1..Len(al) : fine(k)) => probe.am = "true"
        /\ (\E k \in 1..Len(al) :
                /\ al[k].cls \notin ContentClasses
                /\ al[k].cls # ea.vals[k].cls
                /\ \A j \in 1..(k - 1) : fine(j)) => probe.am = "false"

\* two times of different instants, after an equal integer, were accepted
C13_Witness ==
    /\ probe.fn = "argsMatches"
    /\ probe.args = <<Val("int", 5), Val("struct", 1)>>
    /\ probe.eq.args = Args(<<Val("int", 5), Val("struct", 2)>>)
    /\ probe.am = "true"

\* C15 as stated: a Close that fails with Unfulfilled leaves the all-fulfilled
\* status of the list as it was, and a second Close would report the same.
C15_CloseKeepsStatus ==
    [][(Calls({"Close"}) /\ last'.err.kind = "Unfulfilled") =>
          /\ (Unfulfilled(expectations') = {}) <=> (Unfulfilled(expectations) = {})
          /\ closeErr(expectations') = last'.err]_vars

\* C15, amended: Close fulfils nothing but discards the list: after any Close,
\* failed or not, the list is empty, so that no expectation is left
\* unfulfilled, and a Close that directly follows a Close reports no error.
C15_CloseDiscardsStatus ==
    [][Calls({"Close"}) =>
          /\ Unfulfilled(expectations') = {}
          /\ closeErr(expectations') = NoErr
          /\ expectations' = <<>>
          /\ last.op = "Close" => last'.err = NoErr]_vars

\* a Close failed on a Query that was never made, and nothing is left to fail
\* a second Close
C15_Witness ==
    /\ last.op = "Close"
    /\ last.err = ErrUnfulfilled("Query")
    /\ Unfulfilled(expectations) = {}
    /\ closeErr(expectations) = NoErr

\* C16: once Close has been called, no Begin, Commit, Rollback, Prepare, Exec
\* or Query on the connection succeeds.
C16_ClosedIsTerminal ==
    [][(last.op = "Close" /\ Calls(Kinds)) => last'.err # NoErr]_vars

\* the goroutines that hold the identifier of a session
Reserved(srcs) ==
    {p \in Procs : /\ procs[p].src \in srcs
                   /\ procs[p].pc \notin {"new", "reserveRead"}
                   /\ procs[p].err # "rand"}

InOpen == {p \in Procs : procs[p].pc \in {"openLookup", "openInsert", "openUnlock"}}

InLookup == {p \in Procs : procs[p].pc \in {"lookupRead", "lookupUnlock"}}

\* C19: no goroutine is inside Open while another is inside Open or the
\* lookup; at most one connection is ever allocated for an identifier; the
\* entry of an identifier, once inserted, is never replaced; and a lookup
\* returns the one connection of its identifier.
C19_RegistryExclusive ==
    /\ [](/\ \A p \in InOpen, q \in InOpen \cup InLookup : p = q
          /\ \A x, y \in heap : x.dsn = y.dsn => x = y
          /\ \A d \in DSNs : connections[d] # 0 =>
                [dsn |-> d, c |-> connections[d]] \in heap
          /\ \A p \in Procs : procs[p].pc \in {"lookupUnlock", "done"}
                                /\ procs[p].src # "pool" =>
                /\ procs[p].found # 0
                /\ procs[p].found = connections[procs[p].dsn])
    /\ [][\A d \in DSNs : connections[d] # 0 =>
                connections'[d] = connections[d]]_vars

\* two sessions with the same identifier looked up the same single connection
C19_Witness ==
    \E p, q \in Procs :
        /\ p # q
        /\ procs[p].pc = "done" /\ procs[q].pc = "done"
        /\ procs[p].src = "generate" /\ procs[q].src = "generate"
        /\ procs[p].dsn = procs[q].dsn
        /\ procs[p].found = procs[q].found /\ procs[p].found # 0
        /\ Cardinality(heap) = 1

\* C20: what Exec and Query return from the expectation they reached is
\* decided by the first case that applies, in this order: a planned error;
\* no payload set (Misconfigured); the pattern does not match (QueryMismatch);
\* the arguments do not match (ArgMismatch); otherwise the payload.
C20_OutcomeOrder ==
    LET eq == probe.eq
        payload == PayloadOf(eq)
    IN
    probe.fn = "matched" =>
        IF eq.err # NoErr
        THEN probe.err = eq.err /\ probe.res = NilRes
        ELSE IF payload = NilRes
        THEN probe.err = ErrMisconfigured /\ probe.res = NilRes
        ELSE IF ~queryMatches(eq, stripQuery(probe.query))
        THEN probe.err = ErrQueryMismatch /\ probe.res = NilRes
        ELSE IF argsMatches(eq, probe.args) # "true"
        THEN probe.err.kind = "ArgMismatch" /\ probe.res = NilRes
        ELSE probe.err = NoErr /\ probe.res = payload

\* a planned error came back although neither the pattern nor the arguments
\* match and no payload is set
C20_Witness ==
    /\ probe.fn = "matched"
    /\ probe.eq.err \in ErrVals
    /\ probe.err = probe.eq.err
    /\ PayloadOf(probe.eq) = NilRes
    /\ ~queryMatches(probe.eq, stripQuery(probe.query))
    /\ argsMatches(probe.eq, probe.args) = "false"

\* the errors of a call that found no expectation of its kind pending
Refusals == {"Unexpected", "SequenceMismatch"}

\* C21: a call refused as Unexpected or SequenceMismatch changes nothing of the
\* connection: no flag, no expectation added or removed, no handle; the call
\* made after a refused one is dispatched to the pending expectation of its
\* kind as if the refused call had not been made.
C21_RefusalChangesNothing ==
    [][LET n == Pending(expectations) IN
       /\ (Calls(Kinds) /\ last'.err.kind \in Refusals) =>
             /\ expectations' = expectations
             /\ active' = active
             /\ hasTx' = hasTx /\ stmt' = stmt
             /\ last'.idx = 0 /\ last'.res = NilRes
       /\ (/\ last.err.kind \in Refusals
           /\ Calls(StrictOps)
           /\ n # 0 /\ expectations[n].kind = last'.op) =>
             /\ last'.idx = n
             /\ last'.err.kind \notin Refusals
             /\ OnlyFulfils(expectations, expectations', n)]_vars

\* a Commit made before the Begin it should follow was refused: Begin and
\* Commit are both still pending
C21_Witness ==
    /\ Len(expectations) = 2
    /\ expectations[1].kind = "Begin" /\ expectations[2].kind = "Commit"
    /\ \A i \in 1..2 : ~expectations[i].triggered
    /\ hasTx
    /\ last.op = "Commit"
    /\ last.err = ErrSequence("Begin")

\* the step is a declaration: the list grew
Declares == Len(expectations') = Len(expectations) + 1

\* C22: a declaration, before or between calls, appends one unfulfilled
\* expectation at the tail, leaves the expectations declared before it as
\* they are and in their order, and when all of those are fulfilled the new
\* expectation is the pending one.
C22_DeclareAppends ==
    [][Declares =>
          LET m == Len(expectations) IN
          /\ SubSeq(expectations', 1, m) = expectations
          /\ ~expectations'[m + 1].triggered
          /\ Unfulfilled(expectations') = Unfulfilled(expectations) \cup {m + 1}
          /\ Unfulfilled(expectations) = {} => Pending(expectations') = m + 1
          /\ Unfulfilled(expectations) # {} =>
                Pending(expectations') = Pending(expectations)]_vars

\* a Commit was declared after the Begin before it had been made
C22_Witness ==
    /\ Len(expectations) = 2
    /\ expectations[1].kind = "Begin" /\ expectations[1].triggered
    /\ expectations[2] = NewExpectation("Commit", <<>>)
    /\ Pending(expectations) = 2
    /\ hasTx
    /\ last = NoCall

\* C23: short of Close, no step removes or reorders an expectation or turns a
\* fulfilled flag back to false: the length of the list and the number of
\* fulfilled expectations never decrease, and a step fulfils at most one
\* expectation.
C23_LedgerOnlyGrows ==
    [][~Calls({"Close"}) =>
          /\ Len(expectations') >= Len(expectations)
          /\ \A i \in 1..Len(expectations) :
                /\ expectations'[i].kind = expectations[i].kind
                /\ expectations'[i].sqlRegex = expectations[i].sqlRegex
                /\ expectations[i].triggered => expectations'[i].triggered
          /\ NumFulfilled(expectations') >= NumFulfilled(expectations)
          /\ NumFulfilled(expectations') <= NumFulfilled(expectations) + 1]_vars

\* the second of two expectations was fulfilled, the first one is kept
C23_Witness ==
    /\ Len(expectations) = 2
    /\ expectations[1].kind = "Prepare" /\ expectations[1].triggered
    /\ expectations[2].kind = "Exec" /\ expectations[2].triggered
    /\ last.op = "Exec" /\ last.idx = 2
    /\ NumFulfilled(expectations) = 2

\* C24: Begin, Commit, Rollback, Prepare, Exec and Query leave the pattern,
\* the expected arguments, the planned error and the payload of every
\* expectation as they are: the triggered flag is all they write.
C24_CallsWriteOnlyTriggered ==
    [][Calls(Kinds) =>
          /\ Len(expectations') = Len(expectations)
          /\ \A i \in 1..Len(expectations) :
                expectations'[i] =
                    [expectations[i] EXCEPT !.triggered = expectations'[i].triggered]]_vars

\* a Begin returned its planned error, which the expectation still carries
C24_Witness ==
    /\ last.op = "Begin"
    /\ last.idx # 0
    /\ last.err \in ErrVals
    /\ expectations[last.idx].triggered
    /\ expectations[last.idx].err = last.err

\* C25: Begin returns a transaction handle exactly when it returns no error:
\* none with a planned error, none when it is refused.
C25_BeginHandleIffSuccess ==
    last.op = "Begin" => ((last.res = TxHandle) <=> (last.err = NoErr))

\* C26: Exec and Query return either a payload or an error, never both and
\* never neither.
C26_PayloadXorError ==
    last.op \in {"Exec", "Query"} => ((last.res # NilRes) <=> (last.err = NoErr))

\* an Exec whose result was set failed on the pattern and returned no result
C26_Witness ==
    /\ last.op = "Exec"
    /\ last.idx # 0
    /\ last.err = ErrQueryMismatch
    /\ last.res = NilRes
    /\ expectations[last.idx].result \in ResultVals

\* C28: what Commit and Rollback return is decided by the list of
\* expectations alone: refused when nothing is pending or the pending
\* expectation is of another kind, else the pending expectation is consumed
\* and its error returned, whatever Begin gave the handle and whatever was
\* done with the handle before; the handle stays usable.
C28_TxEndIgnoresHandle ==
    [][Calls({"Commit", "Rollback"}) =>
          LET n == Pending(expectations)
              k == last'.op
          IN
          /\ hasTx' = hasTx
          /\ IF n = 0
             THEN last'.err = ErrUnexpected(k) /\ expectations' = expectations
             ELSE IF expectations[n].kind # k
             THEN /\ last'.err = ErrSequence(expectations[n].kind)
                  /\ expectations' = expectations
             ELSE /\ last'.err = expectations[n].err
                  /\ last'.idx = n
                  /\ OnlyFulfils(expectations, expectations', n)]_vars

\* a Commit succeeded on the handle of a Begin that had returned an error
C28_Witness ==
    /\ Len(expectations) = 2
    /\ expectations[1].kind = "Begin" /\ expectations[1].triggered
    /\ expectations[1].err \in ErrVals
    /\ expectations[2].kind = "Commit" /\ expectations[2].triggered
    /\ last.op = "Commit" /\ last.idx = 2 /\ last.err = NoErr

\* C27 as stated: an expectation declared with an empty argument list, in
\* whichever way the empty list is handed to WithArgs, accepts the arguments
\* of every call, as one on which WithArgs was never called.
C27_EmptyArgsIsWildcard ==
    (/\ probe.fn = "argsMatches"
     /\ probe.eq.args \in {variadic(f, <<>>) : f \in {"listed", "spread"}})
    => probe.am = "true"

\* C27, amended: WithArgs() with no value listed stores the nil list an
\* expectation starts with, which accepts the arguments of every call; an
\* empty slice spread into WithArgs is stored as it is, and the expectation
\* then accepts exactly the calls without arguments.
C27_EmptySliceRequiresNoArgs ==
    /\ variadic("listed", <<>>) = NewExpectation("Query", <<>>).args
    /\ probe.fn = "argsMatches" =>
          /\ probe.eq.args = variadic("listed", <<>>) => probe.am = "true"
          /\ probe.eq.args = variadic("spread", <<>>) =>
                (probe.am = "true" <=> probe.args = <<>>)
          /\ (probe.eq.args = variadic("spread", <<>>) /\ probe.args # <<>>) =>
                probe.am = "false"

\* a call with one argument was rejected by an expectation that was given an
\* empty slice
C27_Witness ==
    /\ probe.fn = "argsMatches"
    /\ probe.eq.args = variadic("spread", <<>>)
    /\ probe.args = <<Val("int", 5)>>
    /\ probe.am = "false"

====
